---------------------------- MODULE Spec2Model ----------------------------
(***************************************************************************)
(* A model of src/parse.py: the conversion of a pdftotext dump of a lead   *)
(* sheet into ChordPro.                                                    *)
(*                                                                         *)
(* A Python str is a tuple of characters; a character is a one-character   *)
(* TLA+ string.  The four non-ASCII characters of RE.CHORD are written by  *)
(* name: "sharp" (U+266F), "flat" (U+266D), "o-slash" (U+00F8) and         *)
(* "degree" (U+00B0).                                                      *)
(***************************************************************************)
EXTENDS Integers, Sequences, FiniteSets, TLC

VARIABLES
    lines,            \* parse_pdf: the non-blank lines consumed so far by the for loop
    song,             \* parse_pdf: the song dict
    section_name,     \* parse_pdf: name of the open section, or None
    section_lines,    \* parse_pdf: (chord_line, lyric_line) pairs of the open section
    chord_line,       \* parse_pdf: the pending chord line, or None
    superscript_line, \* parse_pdf: the pending superscript line, or None
    pc,               \* where the modelled call is: "loop" / "call", "done", "raised"
    args,             \* the arguments of a call of one of the pure functions
    result,           \* what that call returned
    frame              \* chordpro_line: the locals of its while loop

vars == <<lines, song, section_name, section_lines, chord_line, superscript_line, pc, args, result, frame>>

parse_vars == <<lines, song, section_name, section_lines, chord_line, superscript_line>>

---------------------------------------------------------------------------
(* Python values                                                           *)

\* None, where the variable otherwise holds a str (a tuple of characters)
None == <<"None">>

\* None, where the variable otherwise holds one character
NoChar == "None"

\* the outcome of a call that raised an exception
Raised == <<"raised">>

\* truth value of a str-or-None: None and '' are false
Truthy(s) == s # None /\ s # <<>>

\* the characters str.strip() removes and \s matches (ASCII range)
Whitespace == {" ", "\t", "\n", "\r", "\f"}

Digits == {"0", "1", "2", "3", "4", "5", "6", "7", "8", "9"}

UpperCase == <<"A", "B", "C", "D", "E", "F", "G", "H", "I", "J", "K", "L", "M", "N", "O", "P", "Q", "R", "S", "T", "U", "V", "W", "X", "Y", "Z">>

LowerCase == <<"a", "b", "c", "d", "e", "f", "g", "h", "i", "j", "k", "l", "m", "n", "o", "p", "q", "r", "s", "t", "u", "v", "w", "x", "y", "z">>

\* str.lower() of one character, as re.I compares characters
Lower(c) ==
    IF \E k \in 1..26 : UpperCase[k] = c
    THEN LowerCase[CHOOSE k \in 1..26 : UpperCase[k] = c]
    ELSE c

LowerStr(s) == [k \in 1..Len(s) |-> Lower(s[k])]

\* s[a:b] for 0 <= a, b (Python slice, 0-based, end exclusive)
Slice(s, a, b) == SubSeq(s, a + 1, IF b > Len(s) THEN Len(s) ELSE b)

\* sub occurs in s at 0-based offset p
OccursAt(s, sub, p) ==
    /\ p + Len(sub) <= Len(s)
    /\ SubSeq(s, p + 1, p + Len(sub)) = sub

\* s.rfind(sub): the highest offset where sub occurs, -1 if none
rfind(s, sub) ==
    IF \E p \in 0..Len(s) : OccursAt(s, sub, p)
    THEN CHOOSE p \in 0..Len(s) :
            /\ OccursAt(s, sub, p)
            /\ \A q \in (p + 1)..Len(s) : ~OccursAt(s, sub, q)
    ELSE -1

\* s.find(sub): the lowest offset where sub occurs, -1 if none
find(s, sub) ==
    IF \E p \in 0..Len(s) : OccursAt(s, sub, p)
    THEN CHOOSE p \in 0..Len(s) :
            /\ OccursAt(s, sub, p)
            /\ \A q \in 0..(p - 1) : ~OccursAt(s, sub, q)
    ELSE -1

\* s.rstrip()
rstrip(s) ==
    LET keep == {k \in 1..Len(s) : s[k] \notin Whitespace}
    IN  IF keep = {} THEN <<>>
        ELSE SubSeq(s, 1, CHOOSE k \in keep : \A j \in keep : j <= k)

\* s.lstrip()
lstrip(s) ==
    LET keep == {k \in 1..Len(s) : s[k] \notin Whitespace}
    IN  IF keep = {} THEN <<>>
        ELSE SubSeq(s, CHOOSE k \in keep : \A j \in keep : k <= j, Len(s))

\* s.strip()
strip(s) == lstrip(rstrip(s))

\* s.isdigit()
isdigit(s) == s # <<>> /\ \A k \in 1..Len(s) : s[k] \in Digits

\* ''.join(parts) for a list of str
RECURSIVE Concat(_)
Concat(parts) ==
    IF parts = <<>> THEN <<>> ELSE Head(parts) \o Concat(Tail(parts))

\* sep.join(parts); a None among the parts is a TypeError
RECURSIVE JoinFrom(_, _, _)
JoinFrom(sep, parts, k) ==
    IF k > Len(parts) THEN <<>>
    ELSE (IF k > 1 THEN sep ELSE <<>>) \o parts[k] \o JoinFrom(sep, parts, k + 1)

join(sep, parts) ==
    IF \E k \in 1..Len(parts) : parts[k] = None \/ parts[k] = Raised THEN Raised
    ELSE JoinFrom(sep, parts, 1)

---------------------------------------------------------------------------
(* Regular expressions, as sets of offsets: each operator takes the set P  *)
(* of offsets a match may have reached and returns the offsets it may      *)
(* reach after one more piece of the pattern.                              *)

\* the literal string w
ReLit(s, P, w) == {p + Len(w) : p \in {q \in P : OccursAt(s, w, q)}}

\* the literal string w (lower case) under re.I
ReLitI(s, P, w) == ReLit(LowerStr(s), P, w)

\* one of the literal strings of ws
ReAlt(s, P, ws) == UNION {ReLit(s, P, w) : w \in ws}

\* one character of the class C
ReClass(s, P, C) == {p + 1 : p \in {q \in P : q < Len(s) /\ s[q + 1] \in C}}

\* C+ : one or more characters of the class C
RePlus(s, P, C) ==
    {r \in 1..Len(s) : \E p \in P : p < r /\ \A k \in (p + 1)..r : s[k] \in C}

\* C* : any number of characters of the class C
ReStar(s, P, C) == P \cup RePlus(s, P, C)

\* $ : at the end of the string, or before a newline that ends it
ReEnd(s, P) ==
    \E p \in P : p = Len(s) \/ (p = Len(s) - 1 /\ s[Len(s)] = "\n")

\* the end of the longest run of characters of C that starts at offset p
RunEnd(s, p, C) ==
    CHOOSE r \in p..Len(s) :
        /\ \A k \in (p + 1)..r : s[k] \in C
        /\ r = Len(s) \/ s[r + 1] \notin C

\* the lowest offset of Starts, for re.search: the leftmost match wins
Leftmost(Starts) == CHOOSE p \in Starts : \A q \in Starts : p <= q

---------------------------------------------------------------------------
(* RE, parse.py lines 9-43                                                 *)

\* [A-JZ], the root and bass note letters of RE.CHORD
NoteLetters == {"A", "B", "C", "D", "E", "F", "G", "H", "I", "J", "Z"}

\* [sharp flat b #]
Accidentals == {"sharp", "flat", "b", "#"}

\* (?P<note>[A-JZ][sharp flat b #]?)
ReNote(t, P) ==
    LET a == ReClass(t, P, NoteLetters) IN a \cup ReClass(t, a, Accidentals)

\* (?P<third>mM|min|MIN|Min|maj|MAJ|Maj|m|M)?
ReThird(t, P) ==
    P \cup ReAlt(t, P, {<<"m", "M">>, <<"m", "i", "n">>, <<"M", "I", "N">>, <<"M", "i", "n">>, <<"m", "a", "j">>, <<"M", "A", "J">>,
                        <<"M", "a", "j">>, <<"m">>, <<"M">>})

\* (?P<fifth>aug|AUG|dim|DIM|\+|o-slash|degree)?
ReFifth(t, P) ==
    P \cup ReAlt(t, P, {<<"a", "u", "g">>, <<"A", "U", "G">>, <<"d", "i", "m">>, <<"D", "I", "M">>, <<"+">>,
                        <<"o-slash">>, <<"degree">>})

\* (?P<number>\(?(?:dom|DOM)?\d+\)?)?
ReNumber(t, P) ==
    LET a == P \cup ReLit(t, P, <<"(">>)
        b == a \cup ReAlt(t, a, {<<"d", "o", "m">>, <<"D", "O", "M">>})
        c == RePlus(t, b, Digits)
        d == c \cup ReLit(t, c, <<")">>)
    IN  P \cup d

\* (?P<subtraction>\(?no3r?d?\)?)?
ReSubtraction(t, P) ==
    LET a == P \cup ReLit(t, P, <<"(">>)
        b == ReLit(t, a, <<"n", "o", "3">>)
        c == b \cup ReLit(t, b, <<"r">>)
        d == c \cup ReLit(t, c, <<"d">>)
        e == d \cup ReLit(t, d, <<")">>)
    IN  P \cup e

\* (?P<altered>[sharp flat b # \- \+]\d+)?
ReAltered(t, P) ==
    P \cup RePlus(t, ReClass(t, P, Accidentals \cup {"-", "+"}), Digits)

\* (?P<suspension>(?:sus|SUS)\d*)?
ReSuspension(t, P) ==
    P \cup ReStar(t, ReAlt(t, P, {<<"s", "u", "s">>, <<"S", "U", "S">>}), Digits)

\* (?P<addition>(?:add|ADD|/)\d+)?
ReAddition(t, P) ==
    P \cup RePlus(t, ReAlt(t, P, {<<"a", "d", "d">>, <<"A", "D", "D">>, <<"/">>}), Digits)

\* (?P<bass>/[A-JZ][sharp flat b #]?)?
ReBass(t, P) ==
    LET a == ReClass(t, ReLit(t, P, <<"/">>), NoteLetters)
    IN  P \cup a \cup ReClass(t, a, Accidentals)

\* the first alternative of RE.CHORD: ^(?P<nochords>[Nn]\.?[Cc]\.?)
\* (the pattern's | separates "^nochords" from "note ... bass$")
ReNoChords(t, P) ==
    LET a == ReClass(t, P, {"N", "n"})
        b == a \cup ReLit(t, a, <<".">>)
        c == ReClass(t, b, {"C", "c"})
    IN  c \cup ReLit(t, c, <<".">>)

\* the second alternative of RE.CHORD: (?P<note>...) ... (?P<bass>...)?$
ReChordSymbol(t, P) ==
    ReBass(t, ReAddition(t, ReSuspension(t, ReAltered(t, ReSubtraction(t,
        ReNumber(t, ReFifth(t, ReThird(t, ReNote(t, P)))))))))

\* RE.CHORD.match(t) is not None: match() tries the pattern at offset 0 only
CHORD_match(t) ==
    \/ ReNoChords(t, {0}) # {}
    \/ ReEnd(t, ReChordSymbol(t, {0}))

\* the keywords of RE.SECTION (re.VERBOSE drops the pattern's white space)
SectionKeywords ==
    {<<"v", "e", "r", "s", "e">>, <<"c", "h", "o", "r", "u", "s">>, <<"b", "r", "i", "d", "g", "e">>, <<"p", "r", "e", "-", "c", "h", "o", "r", "u", "s">>, <<"i", "n", "s", "t", "r", "u", "m", "e", "n", "t", "a", "l">>, <<"i", "n", "t", "e", "r", "l", "u", "d", "e">>}

\* the match without re.I: the keywords in lower case only
SECTION_matchCaseSensitive(line) ==
    \E w \in SectionKeywords : OccursAt(line, w, 0)

\* RE.SECTION.match(line) is not None: a keyword, in any case, at offset 0
SECTION_match(line) ==
    \E w \in SectionKeywords : OccursAt(LowerStr(line), w, 0)

\* the offsets RE.CCLI may reach before its group, matching from offset p:
\* CCLI ?Song ?# ?
CcliPrefix(line, p) ==
    LET a == ReLitI(line, {p}, <<"c", "c", "l", "i">>)
        b == ReLitI(line, a \cup ReLit(line, a, <<" ">>), <<"s", "o", "n", "g">>)
        c == ReLit(line, b \cup ReLit(line, b, <<" ">>), <<"#">>)
    IN  {q \in c \cup ReLit(line, c, <<" ">>) : ReClass(line, {q}, Digits) # {}}

\* RE.CCLI.search(line): None, or groups()[0], the digits (\d+ is greedy)
CCLI_search(line) ==
    LET Starts == {p \in 0..Len(line) : CcliPrefix(line, p) # {}}
    IN  IF Starts = {} THEN None
        ELSE LET q == CHOOSE q \in CcliPrefix(line, Leftmost(Starts)) : TRUE
             IN  Slice(line, q, RunEnd(line, q, Digits))

\* the offsets reached by  word\s+[-:]\s+  from offset p (re.I)
MarkerPrefix(line, p, word) ==
    LET a == RePlus(line, ReLitI(line, {p}, word), Whitespace)
    IN  RePlus(line, ReClass(line, a, {"-", ":"}), Whitespace)

\* a search that found nothing
NoMatch == [start |-> -1, group |-> None]

\* ([A-G][#b]?) under re.I matches at offset q
KeyGroup(line, q) == ReClass(LowerStr(line), {q}, {"a", "b", "c", "d", "e", "f", "g"}) # {}

\* (\d+/\d+) matches at offset q
TimeGroup(line, q) ==
    RePlus(line, ReLit(line, RePlus(line, {q}, Digits), <<"/">>), Digits) # {}

\* (\d+) matches at offset q
TempoGroup(line, q) == ReClass(line, {q}, Digits) # {}

\* the group of RE.KEY, RE.TIME or RE.TEMPO, named by its word, matches at q
GroupMatches(line, word, q) ==
    CASE word = <<"k", "e", "y">> -> KeyGroup(line, q)
      [] word = <<"t", "i", "m", "e">> -> TimeGroup(line, q)
      [] word = <<"t", "e", "m", "p", "o">> -> TempoGroup(line, q)

\* the start of the leftmost match of  word\s+[-:]\s+(group) ; -1 if none
MarkerStart(line, word) ==
    LET Starts == {p \in 0..Len(line) :
                      \E q \in MarkerPrefix(line, p, word) : GroupMatches(line, word, q)}
    IN  IF Starts = {} THEN -1 ELSE Leftmost(Starts)

\* the offset at which the group of that match starts
MarkerGroupAt(line, word) ==
    CHOOSE q \in MarkerPrefix(line, MarkerStart(line, word), word) :
        GroupMatches(line, word, q)

\* RE.KEY.search(line): [start |-> span()[0], group |-> groups()[0]], or NoMatch
KEY_search(line) ==
    LET s == MarkerStart(line, <<"k", "e", "y">>)
    IN  IF s = -1 THEN NoMatch
        ELSE LET q == MarkerGroupAt(line, <<"k", "e", "y">>)
                 r == IF ReClass(LowerStr(line), {q + 1}, {"#", "b"}) # {} THEN q + 2 ELSE q + 1
             IN  [start |-> s, group |-> Slice(line, q, r)]

\* RE.TIME.search(line): [start |-> span()[0], group |-> groups()[0]], or NoMatch
TIME_search(line) ==
    LET s == MarkerStart(line, <<"t", "i", "m", "e">>)
    IN  IF s = -1 THEN NoMatch
        ELSE LET q == MarkerGroupAt(line, <<"t", "i", "m", "e">>)
                 r == RunEnd(line, q, Digits)
             IN  [start |-> s, group |-> Slice(line, q, RunEnd(line, r + 1, Digits))]

\* RE.TEMPO.search(line): [start |-> span()[0], group |-> groups()[0]], or NoMatch
TEMPO_search(line) ==
    LET s == MarkerStart(line, <<"t", "e", "m", "p", "o">>)
    IN  IF s = -1 THEN NoMatch
        ELSE LET q == MarkerGroupAt(line, <<"t", "e", "m", "p", "o">>)
             IN  [start |-> s, group |-> Slice(line, q, RunEnd(line, q, Digits))]

---------------------------------------------------------------------------
(* tokenise_chords, parse.py lines 62-96                                   *)

\* brackets: the closer of each opening bracket
brackets == [c \in {"(", "[", "{"} |-> CASE c = "(" -> ")" [] c = "[" -> "]" [] c = "{" -> "}"]

\* the characters of '| \t\n\r'
Separators == {"|", " ", "\t", "\n", "\r"}

\* the for loop from character k on, with the locals chords, chord, closer,
\* and the flush after it
RECURSIVE tokenise_from(_, _, _, _, _)
tokenise_from(line, k, chords, chord, closer) ==
    IF k > Len(line)
    THEN IF chord # <<>> THEN Append(chords, chord) ELSE chords
    ELSE LET c == line[k] IN
         IF closer # NoChar
         THEN tokenise_from(line, k + 1, chords, Append(chord, c),
                            IF c = closer THEN NoChar ELSE closer)
         ELSE IF c \in DOMAIN brackets
         THEN tokenise_from(line, k + 1, chords, Append(chord, c), brackets[c])
         ELSE IF c \in Separators
         THEN tokenise_from(line, k + 1,
                            (IF chord # <<>> THEN Append(chords, chord) ELSE chords)
                                \o (IF c = "|" THEN << <<"|">> >> ELSE <<>>),
                            <<>>, closer)
         ELSE tokenise_from(line, k + 1, chords, Append(chord, c), closer)

tokenise_chords(line) == tokenise_from(line, 1, <<>>, <<>>, NoChar)

---------------------------------------------------------------------------
(* chord_indicies, parse.py lines 99-110                                   *)

\* the search resumed one character after the start of the token
NextSearchStartOneOn(chord_index, chord) == chord_index + 1

\* where the search for the next token starts, after the token at chord_index
NextSearchStart(chord_index, chord) == chord_index + Len(chord)

\* the generator from token k on, i being the search offset: the list of
\* <<chord_index, chord>> it yields, or Raised when a token is not found
RECURSIVE indicies_from(_, _, _, _)
indicies_from(line, tokens, k, i) ==
    IF k > Len(tokens) THEN <<>>
    ELSE LET chord == tokens[k]
             search_index == find(Slice(line, i, Len(line)), chord)
             chord_index == i + search_index
         IN  IF search_index = -1 THEN Raised
             ELSE LET rest == indicies_from(line, tokens, k + 1,
                                            NextSearchStart(chord_index, chord))
                  IN  IF rest = Raised THEN Raised
                      ELSE << <<chord_index, chord>> >> \o rest

chord_indicies(line) == indicies_from(line, tokenise_chords(line), 1, 0)

---------------------------------------------------------------------------
(* is_chord_line, parse.py lines 113-128                                   *)

\* the test of one token: bar, direction, or chord
IsChordToken(t) ==
    \/ t = <<"|">>
    \/ t[1] = "(" \/ t[Len(t)] = ")"
    \/ CHORD_match(t)

\* the vote with >= for >: a tie counts as a chord line
is_chord_lineTiesWin(tokens) ==
    LET chords == Cardinality({k \in 1..Len(tokens) : IsChordToken(tokens[k])})
    IN  chords >= Len(tokens) - chords

is_chord_line(tokens) ==
    LET chords == Cardinality({k \in 1..Len(tokens) : IsChordToken(tokens[k])})
        not_chords == Len(tokens) - chords
    IN  chords > not_chords

---------------------------------------------------------------------------
(* chordpro_line, parse.py lines 131-193                                   *)

\* the lyric line padded with spaces instead of None
LyricCharPaddedWithSpaces(lyric_line, i) == IF i < Len(lyric_line) THEN lyric_line[i + 1] ELSE " "

\* next(line_iter) after position i: enumerate(chain(lyric_line, repeat(None)))
LyricChar(lyric_line, i) == IF i < Len(lyric_line) THEN lyric_line[i + 1] ELSE NoChar

\* the token is a direction, rendered as a comment
IsDirective(chord) == chord[1] = "(" /\ chord[Len(chord)] = ")"

\* what the chord branch appends to output (lines 162-172); output is kept
\* as one string, so output[-1][-1] is its last character
EmitChord(output, chord, char, last_char) ==
    IF IsDirective(chord)
    THEN output \o <<"{", "c", "o", "m", "m", "e", "n", "t", ":">> \o chord \o <<"}">>
    ELSE output
         \o (IF output # <<>> /\ output[Len(output)] = "]" THEN <<" ">>
             ELSE IF char = " " /\ last_char # " " THEN <<" ">>
             ELSE <<>>)
         \o <<"[">> \o chord \o <<"]">>

\* the skip without its limit: every space that follows is skipped
SkipCountEverySpace(lyric_line, i, chord) ==
    IF i < Len(lyric_line) THEN RunEnd(lyric_line, i, {" "}) - i ELSE 0

\* the skip without its test for a space: len(chord) characters are skipped
SkipCountAnyCharacter(lyric_line, i, chord) == Len(chord)

\* the inner while loop (lines 174-178): how many lyric spaces are skipped
SkipCount(lyric_line, i, chord) ==
    LET Stops == {n \in 0..Len(chord) :
                      n = Len(chord) \/ LyricChar(lyric_line, i + n) # " "}
    IN  CHOOSE n \in Stops : \A m \in Stops : n <= m

\* next(chord_iter): chain(chord_indicies(chord_line), repeat((-1, None)));
\* chords is what the generator has still to yield
NextChord(chords) ==
    IF chords # <<>>
    THEN [chords |-> Tail(chords), index |-> Head(chords)[1], chord |-> Head(chords)[2]]
    ELSE [chords |-> <<>>, index |-> -1, chord |-> None]

\* the state before the while loop (lines 145-159)
MergeInit(indicies, lyric_line) ==
    LET n == NextChord(indicies)
    IN  [chords    |-> n.chords,
         index     |-> n.index,
         chord     |-> n.chord,
         i         |-> 0,
         char      |-> LyricChar(lyric_line, 0),
         last_char |-> NoChar,
         output    |-> <<>>]

\* the loop condition: while chord or char
MergeRunning(st) == Truthy(st.chord) \/ st.char # NoChar

\* one iteration of the while loop (lines 161-188)
MergeStep(st, lyric_line) ==
    IF st.i = st.index
    THEN LET n == SkipCount(lyric_line, st.i, st.chord)
             next == NextChord(st.chords)
         IN  [chords    |-> next.chords,
              index     |-> next.index,
              chord     |-> next.chord,
              i         |-> st.i + n,
              char      |-> LyricChar(lyric_line, st.i + n),
              last_char |-> IF n > 0 THEN " " ELSE st.last_char,
              output    |-> EmitChord(st.output, st.chord, st.char, st.last_char)]
    ELSE [st EXCEPT !.output    = Append(st.output, IF st.char = NoChar THEN " " ELSE st.char),
                    !.last_char = IF st.char = NoChar THEN " " ELSE st.char,
                    !.i         = st.i + 1,
                    !.char      = LyricChar(lyric_line, st.i + 1)]

\* the while loop, to its end: the final output
RECURSIVE MergeLoop(_, _)
MergeLoop(st, lyric_line) ==
    IF MergeRunning(st) THEN MergeLoop(MergeStep(st, lyric_line), lyric_line)
    ELSE st.output

\* re.sub(r'    +', '    ', s): every run of four or more spaces becomes four
RECURSIVE CollapseSpaces(_)
CollapseSpaces(s) ==
    IF s = <<>> THEN <<>>
    ELSE IF s[1] = " "
    THEN LET r == RunEnd(s, 0, {" "})
         IN  SubSeq(s, 1, IF r >= 4 THEN 4 ELSE r) \o CollapseSpaces(SubSeq(s, r + 1, Len(s)))
    ELSE <<s[1]>> \o CollapseSpaces(Tail(s))

chordpro_line(chords, lyric_line) ==
    IF ~Truthy(chords) THEN lyric_line
    ELSE IF ~Truthy(lyric_line) THEN chords
    ELSE LET indicies == chord_indicies(chords)
         IN  IF indicies = Raised THEN Raised
             ELSE strip(CollapseSpaces(MergeLoop(MergeInit(indicies, lyric_line), lyric_line)))

---------------------------------------------------------------------------
(* fix_superscript_line, parse.py lines 196-224                            *)

\* what one (s, c) of zip_longest contributes to out; NoChar stands for None
SuperscriptColumn(s, c) ==
    IF s = NoChar THEN <<c>>
    ELSE IF s = " " THEN <<c>>
    ELSE IF c = " " THEN <<s>>
    ELSE <<s, c>>

\* ''.join(out): a None in out is a TypeError
fix_superscript_line(superscript, chords) ==
    LET n == IF Len(superscript) > Len(chords) THEN Len(superscript) ELSE Len(chords)
        At(s, k) == IF k <= Len(s) THEN s[k] ELSE NoChar
        out == Concat([k \in 1..n |-> SuperscriptColumn(At(superscript, k), At(chords, k))])
    IN  IF \E k \in 1..Len(out) : out[k] = NoChar THEN Raised ELSE out

---------------------------------------------------------------------------
(* Bounds and inputs                                                       *)

\* the longest sheet parse_pdf is run on, in non-blank lines
MaxLines == 4

\* the lines a sheet is made of; none is blank (line 251 drops blank lines)
Lines ==
    { <<"V", "E", "R", "S", "E", " ", "1", " ">>,                  \* a section header, with trailing white space
      <<"C", "h", "o", "r", "u", "s">>,                    \* a section header
      <<" ", "C", "h", "o", "r", "u", "s">>,                   \* a keyword after leading white space
      <<"C", " ", " ", "G", " ">>,                     \* a chord line
      <<"A">>,                         \* a chord line of one column
      <<" ", "6">>,                        \* a pushed-up superscript
      <<"a", "b", " ", "c", "d">>,                     \* a lyric line
      <<"C", "C", "L", "I", " ", "S", "o", "n", "g", " ", "#", "7">>,              \* the licence number
      <<"T", " ", "K", "e", "y", " ", "-", " ", "G">>,                 \* title and key
      <<"M", "e", " ", "T", "e", "m", "p", "o", " ", "-", " ", "7", "2", " ", "T", "i", "m", "e", " ", "-", " ", "4", "/", "4">> } \* author, tempo and time signature

---------------------------------------------------------------------------
(* parse_pdf, parse.py lines 227-337                                       *)

\* a mapping that moves a name set again to the end
SetItemMovingToEnd(d, name, value) ==
    Append(SelectSeq(d, LAMBDA e : e.name # name), [name |-> name, value |-> value])

\* song['sections'] is an OrderedDict: here a list of [name, value] in
\* insertion order.  d[name] = value keeps the place of a name already there.
SetItem(d, name, value) ==
    IF \E k \in 1..Len(d) : d[k].name = name
    THEN [k \in 1..Len(d) |-> IF d[k].name = name THEN [name |-> name, value |-> value] ELSE d[k]]
    ELSE Append(d, [name |-> name, value |-> value])

\* the song dict of lines 239-249
NewSong ==
    [title |-> None, key |-> None, tempo |-> None, author |-> None, time |-> None,
     ccli |-> None, legal |-> <<>>, sections |-> <<>>, type |-> "pdf"]

\* line 260: everything after a ccli number is blurb
InLegal(s) == Truthy(s.ccli)

\* the legal text overwritten instead of extended: song['legal'] = line
LegalTextOverwritten(legal, line) == line

\* lines 261 and 267: song['legal'] += line
LegalText(legal, line) == legal \o line

\* the commit without the flush of the pending chord line
CommitSectionWithoutFlush(sections, name, pairs, pending) ==
    IF Truthy(name) THEN SetItem(sections, name, pairs) ELSE sections

\* lines 272-275 and 316-319: if a section is open, flush the pending chord
\* line into it and commit it to song['sections']
CommitSection(sections, name, pairs, pending) ==
    IF Truthy(name)
    THEN SetItem(sections, name,
                 IF Truthy(pending) THEN Append(pairs, <<pending, None>>) ELSE pairs)
    ELSE sections

\* lines 276-278: the loop variables after a section header
HeaderState(line) ==
    [chord_line |-> None, section_name |-> strip(line), section_lines |-> <<>>]

\* the tests of the loop body that depend on the line alone, in the order
\* of lines 264, 271, 279 and 293
LineTests(line) ==
    IF CCLI_search(line) # None THEN "ccli"
    ELSE IF SECTION_match(line) THEN "header"
    ELSE IF is_chord_line(tokenise_chords(line)) THEN "chord"
    ELSE IF isdigit(strip(line)) THEN "digits"
    ELSE "other"

\* LineTests, evaluated once for each line of Lines
LineKind == [line \in Lines |-> LineTests(line)]

\* the branch of the loop body (lines 260-298) that handles the line
Branch(s, name, line) ==
    IF InLegal(s) THEN "legal"
    ELSE IF LineKind[line] \in {"ccli", "header", "chord"} THEN LineKind[line]
    ELSE IF Truthy(name) THEN (IF LineKind[line] = "digits" THEN "superscript" ELSE "lyric")
    ELSE "preamble"

\* one more line is taken from the sheet and handled by branch b
Take(line, b) ==
    /\ pc = "loop"
    /\ Len(lines) < MaxLines
    /\ Branch(song, section_name, line) = b
    /\ lines' = Append(lines, line)
    /\ UNCHANGED <<args, result, frame>>

\* lines 260-262
LegalLine(line) ==
    /\ Take(line, "legal")
    /\ song' = [song EXCEPT !.legal = LegalText(@, line)]
    /\ UNCHANGED <<section_name, section_lines, chord_line, superscript_line, pc>>

\* lines 264-268
CcliLine(line) ==
    /\ Take(line, "ccli")
    /\ song' = [song EXCEPT !.ccli = CCLI_search(line), !.legal = LegalText(@, line)]
    /\ UNCHANGED <<section_name, section_lines, chord_line, superscript_line, pc>>

\* lines 271-278
SectionHeader(line) ==
    /\ Take(line, "header")
    /\ song' = [song EXCEPT !.sections =
                    CommitSection(@, section_name, section_lines, chord_line)]
    /\ chord_line' = HeaderState(line).chord_line
    /\ section_name' = HeaderState(line).section_name
    /\ section_lines' = HeaderState(line).section_lines
    /\ UNCHANGED <<superscript_line, pc>>

\* a chord line that keeps the chord line it replaces, as an unpaired pair
ChordLineFlushing(line) ==
    /\ Take(line, "chord")
    /\ LET merged == IF superscript_line # None
                     THEN fix_superscript_line(superscript_line, rstrip(line))
                     ELSE rstrip(line)
       IN  IF merged = Raised
           THEN /\ pc' = "raised"
                /\ section_name' = IF Truthy(section_name) THEN section_name ELSE <<"V", "E", "R", "S", "E", " ", "1">>
                /\ UNCHANGED <<song, section_lines, chord_line, superscript_line>>
           ELSE /\ section_name' = IF Truthy(section_name) THEN section_name ELSE <<"V", "E", "R", "S", "E", " ", "1">>
                /\ section_lines' = IF chord_line # None
                                    THEN Append(section_lines, <<chord_line, None>>)
                                    ELSE section_lines
                /\ chord_line' = merged
                /\ superscript_line' = None
                /\ UNCHANGED <<song, pc>>

\* lines 279-289
ChordLine(line) ==
    /\ Take(line, "chord")
    /\ LET merged == IF superscript_line # None
                     THEN fix_superscript_line(superscript_line, rstrip(line))
                     ELSE rstrip(line)
       IN  IF merged = Raised
           THEN /\ pc' = "raised"
                /\ section_name' = IF Truthy(section_name) THEN section_name ELSE <<"V", "E", "R", "S", "E", " ", "1">>
                /\ UNCHANGED <<song, section_lines, chord_line, superscript_line>>
           ELSE /\ section_name' = IF Truthy(section_name) THEN section_name ELSE <<"V", "E", "R", "S", "E", " ", "1">>
                /\ chord_line' = merged
                /\ superscript_line' = None
                /\ UNCHANGED <<song, section_lines, pc>>

\* lines 290-294
SuperscriptLine(line) ==
    /\ Take(line, "superscript")
    /\ superscript_line' = line
    /\ UNCHANGED <<song, section_name, section_lines, chord_line, pc>>

\* lines 290, 295-297
LyricLine(line) ==
    /\ Take(line, "lyric")
    /\ section_lines' = Append(section_lines, <<chord_line, rstrip(line)>>)
    /\ chord_line' = None
    /\ UNCHANGED <<song, section_name, superscript_line, pc>>

\* lines 300-314: the song after a preamble line
Preamble(s, line) ==
    LET key == KEY_search(line)
        time == TIME_search(line)
        tempo == TEMPO_search(line)
    IN  IF key.start # -1
        THEN [s EXCEPT !.key = key.group, !.title = strip(Slice(line, 0, key.start))]
        ELSE IF time.start # -1
        THEN IF tempo.start # -1
             THEN [s EXCEPT !.time = time.group, !.tempo = tempo.group,
                            !.author = strip(Slice(line, 0, tempo.start))]
             ELSE [s EXCEPT !.time = time.group,
                            !.author = strip(Slice(line, 0, time.start))]
        ELSE s

\* lines 298-314
PreambleLine(line) ==
    /\ Take(line, "preamble")
    /\ song' = Preamble(song, line)
    /\ UNCHANGED <<section_name, section_lines, chord_line, superscript_line, pc>>

\* the end of the input without lines 316-319: the open section is not committed
EndOfInputWithoutCommit ==
    /\ pc = "loop"
    /\ pc' = "render"
    /\ UNCHANGED <<lines, song, section_name, section_lines, chord_line, superscript_line,
                   args, result, frame>>

\* lines 316-319: the input ends, at any length up to MaxLines
EndOfInput ==
    /\ pc = "loop"
    /\ song' = [song EXCEPT !.sections =
                    CommitSection(@, section_name, section_lines, chord_line)]
    /\ pc' = "render"
    /\ UNCHANGED <<lines, section_name, section_lines, chord_line, superscript_line,
                   args, result, frame>>

\* lines 330-332: '\n'.join(chordpro_line(c, l) for c, l in section_lines)
RenderSection(pairs) ==
    join(<<"\n">>, [k \in 1..Len(pairs) |-> chordpro_line(pairs[k][1], pairs[k][2])])

\* the tag taken from the sections' content instead of their presence
TypeTagByContent(sections) ==
    IF \A k \in 1..Len(sections) : sections[k].value = <<>> THEN "pdf-failed" ELSE "pdf"

\* lines 334-335
TypeTag(sections) == IF sections = <<>> THEN "pdf-failed" ELSE "pdf"

\* lines 329-337: convert into chordpro, tag the type, return
Render ==
    /\ pc = "render"
    /\ LET rendered == [k \in 1..Len(song.sections) |->
                           [name  |-> song.sections[k].name,
                            value |-> RenderSection(song.sections[k].value)]]
       IN  IF \E k \in 1..Len(rendered) : rendered[k].value = Raised
           THEN pc' = "raised" /\ UNCHANGED song
           ELSE /\ song' = [song EXCEPT !.sections = rendered, !.type = TypeTag(rendered)]
                /\ pc' = "done"
    /\ UNCHANGED <<lines, section_name, section_lines, chord_line, superscript_line,
                   args, result, frame>>

Init ==
    /\ lines = <<>>
    /\ song = NewSong
    /\ section_name = None
    /\ section_lines = <<>>
    /\ chord_line = None
    /\ superscript_line = None
    /\ pc = "loop"
    /\ args = <<>>
    /\ result = None
    /\ frame = None

Next ==
    \/ \E line \in Lines :
          \/ LegalLine(line)
          \/ CcliLine(line)
          \/ SectionHeader(line)
          \/ ChordLine(line)
          \/ SuperscriptLine(line)
          \/ LyricLine(line)
          \/ PreambleLine(line)
    \/ EndOfInput
    \/ Render

Spec == Init /\ [][Next]_vars

---------------------------------------------------------------------------
(* What a sheet says, read off the consumed lines alone                    *)

Last(s) == s[Len(s)]

Min(S) == CHOOSE x \in S : \A y \in S : x <= y

Max(S) == CHOOSE x \in S : \A y \in S : y <= x

\* the elements of a set of numbers, in ascending order
RECURSIVE Ascending(_)
Ascending(S) == IF S = {} THEN <<>> ELSE <<Min(S)>> \o Ascending(S \ {Min(S)})

\* the first occurrences of the elements of a list, in order
RECURSIVE DedupFirst(_)
DedupFirst(s) ==
    IF s = <<>> THEN <<>>
    ELSE LET init == DedupFirst(SubSeq(s, 1, Len(s) - 1))
         IN  IF \E k \in 1..Len(init) : init[k] = Last(s) THEN init ELSE Append(init, Last(s))

\* the number of lines in front of the first licence line
StructEnd(ls) ==
    LET Licence == {k \in 1..Len(ls) : LineKind[ls[k]] = "ccli"}
    IN  IF Licence = {} THEN Len(ls) ELSE Min(Licence) - 1

\* a licence line has been consumed
LicenceSeen(ls) == StructEnd(ls) < Len(ls)

\* the lines that open a section: the headers, and a chord line that no
\* header and no chord line precedes
Opens(ls) ==
    {k \in 1..StructEnd(ls) :
        \/ LineKind[ls[k]] = "header"
        \/ /\ LineKind[ls[k]] = "chord"
           /\ \A j \in 1..(k - 1) : LineKind[ls[j]] \notin {"header", "chord"}}

\* the name of the section that line k opens
OpenName(ls, k) == IF LineKind[ls[k]] = "header" THEN strip(ls[k]) ELSE <<"V", "E", "R", "S", "E", " ", "1">>

\* the last line of the section that line k opens
SegEnd(ls, k) ==
    LET Later == {j \in Opens(ls) : j > k}
    IN  IF Later = {} THEN StructEnd(ls) ELSE Min(Later) - 1

\* the lyric lines of the section that line k opens, right-trimmed, in order
LyricsOf(ls, k) ==
    LET idx == Ascending({j \in (k + 1)..SegEnd(ls, k) : LineKind[ls[j]] = "other"})
    IN  [n \in 1..Len(idx) |-> rstrip(ls[idx[n]])]

\* a chord line of the section that line k opens is unpaired when it closes
PendingAtClose(ls, k) ==
    \E j \in k..SegEnd(ls, k) :
        /\ LineKind[ls[j]] = "chord"
        /\ \A m \in (j + 1)..SegEnd(ls, k) : LineKind[ls[m]] = "digits"

\* the lyric lines of a list of (chord, lyric) pairs
PairLyrics(pairs) ==
    LET idx == Ascending({n \in 1..Len(pairs) : pairs[n][2] # None})
    IN  [n \in 1..Len(idx) |-> pairs[idx[n]][2]]

\* the names of the mapping, in its order
SectionNames(sections) == [k \in 1..Len(sections) |-> sections[k].name]

\* a step of the for loop: one more line has been consumed
LoopStep == pc = "loop" /\ Len(lines') = Len(lines) + 1

\* one of the section keywords, in any case, at offset p of the line
KeywordAt(line, p) ==
    \E w \in SectionKeywords :
        /\ p + Len(w) <= Len(line)
        /\ \A n \in 1..Len(w) : Lower(line[p + n]) = w[n]

---------------------------------------------------------------------------
(* Claims about parse_pdf, checked under Spec                              *)

\* C1: once a licence line has been consumed, every later line is appended
\* to the legal text, in input order, and changes nothing else: no field of
\* the song, no section, no pair, no pending chord or superscript line.
C1_LegalAbsorbsEveryLine ==
    [][(LoopStep /\ LicenceSeen(lines)) =>
            /\ song' = [song EXCEPT !.legal = song.legal \o Last(lines')]
            /\ UNCHANGED <<section_name, section_lines, chord_line, superscript_line>>
      ]_vars

\* C1 witness: a header and a chord line have followed the licence line, and
\* no section is open, no chord line is pending, all three are legal text
C1_Witness ==
    /\ Len(lines) >= 3
    /\ LineKind[lines[1]] = "ccli"
    /\ LineKind[lines[2]] = "header"
    /\ LineKind[lines[3]] = "chord"
    /\ section_name = None /\ chord_line = None /\ song.sections = <<>>
    /\ song.legal = lines[1] \o lines[2] \o lines[3]

\* C2 (as claimed): right after a section header is handled, no chord line
\* and no superscript line is pending.
C2_HeaderClearsPending ==
    [][(LoopStep /\ Branch(song, section_name, Last(lines')) = "header") =>
            (chord_line' = None /\ superscript_line' = None)
      ]_vars

\* C3 (as claimed): the scan and the rendering never raise.
C3_NeverRaises == pc # "raised"

\* C4: the names of the final mapping are pairwise distinct and stand in the
\* order of their first opening (by a header or the implicit VERSE 1); an
\* entry holds what the last section of that name committed.
C4_FirstSeenOrderLastContent ==
    pc \in {"render", "done"} =>
        LET opens == Ascending(Opens(lines))
            opened == [j \in 1..Len(opens) |-> OpenName(lines, opens[j])]
            names == SectionNames(song.sections)
            LastOpen(name) == Max({k \in Opens(lines) : OpenName(lines, k) = name})
        IN  /\ \A a, b \in 1..Len(names) : a # b => names[a] # names[b]
            /\ names = DedupFirst(opened)
            /\ pc = "render" =>
                   \A k \in 1..Len(names) :
                       PairLyrics(song.sections[k].value) = LyricsOf(lines, LastOpen(names[k]))

\* C4 witness: a name is opened, another one after it, then the first again
\* with other content
C4_Witness ==
    /\ pc = "render"
    /\ \E i, j, k \in Opens(lines) :
          /\ i < j /\ j < k
          /\ OpenName(lines, i) = OpenName(lines, k)
          /\ OpenName(lines, i) # OpenName(lines, j)
          /\ LyricsOf(lines, i) # LyricsOf(lines, k)

\* the sheet starts with a header, its headers differ after trimming, and it
\* has no licence line
C5_Sheet(ls) ==
    /\ ls # <<>>
    /\ LineKind[ls[1]] = "header"
    /\ ~LicenceSeen(ls)
    /\ \A a, b \in Opens(ls) : a # b => strip(ls[a]) # strip(ls[b])

\* C5: for such a sheet the mapping has one entry per header, in header
\* order; the lyric lines between a header and the next are the lyric lines
\* of its entry's pairs, in input order; a chord line pending when the
\* section closes is its last pair, (chord, None), and no other pair lacks
\* its lyric line.
C5_SectionFlush ==
    (pc = "render" /\ C5_Sheet(lines)) =>
        LET opens == Ascending(Opens(lines))
        IN  /\ Len(song.sections) = Len(opens)
            /\ \A j \in 1..Len(opens) :
                  LET pairs == song.sections[j].value
                      Unpaired == {n \in 1..Len(pairs) : pairs[n][2] = None}
                  IN  /\ song.sections[j].name = strip(lines[opens[j]])
                      /\ PairLyrics(pairs) = LyricsOf(lines, opens[j])
                      /\ Unpaired = IF PendingAtClose(lines, opens[j]) THEN {Len(pairs)} ELSE {}
                      /\ \A n \in Unpaired : pairs[n][1] # None

\* C5 witness: two sections, the first with a lyric line, the second closed
\* by the end of input with its chord line still pending
C5_Witness ==
    /\ pc = "render" /\ C5_Sheet(lines)
    /\ Len(song.sections) = 2
    /\ Len(song.sections[1].value) = 1 /\ song.sections[1].value[1][2] # None
    /\ Len(song.sections[2].value) = 1 /\ song.sections[2].value[1][2] = None

\* what C6 says of a line handled as a header: the open section is committed
\* and a new one, named by the trimmed line, is opened
C6_HandledAsHeader ==
    /\ section_name' = strip(Last(lines'))
    /\ section_lines' = <<>>
    /\ Truthy(section_name) =>
           \E k \in 1..Len(song'.sections) :
               /\ song'.sections[k].name = section_name
               /\ PairLyrics(song'.sections[k].value) = PairLyrics(section_lines)

\* C6 (as claimed): a line handled before the legal state that holds a
\* section keyword at any offset is handled as a header.
C6_KeywordAnywhereIsHeader ==
    [][(LoopStep /\ ~LicenceSeen(lines')
            /\ \E p \in 0..Len(Last(lines')) : KeywordAt(Last(lines'), p))
        => C6_HandledAsHeader]_vars

\* C6 (amended): a line handled before the legal state that starts with a
\* section keyword, in any case, is handled as a header.
C6_KeywordAtStartIsHeader ==
    [][(LoopStep /\ ~LicenceSeen(lines') /\ KeywordAt(Last(lines'), 0))
        => C6_HandledAsHeader]_vars

\* C6 witness: a header has closed a section that had a pair, and has opened
\* its own
C6_Witness ==
    /\ pc = "loop" /\ lines # <<>> /\ ~LicenceSeen(lines)
    /\ KeywordAt(Last(lines), 0)
    /\ section_name = strip(Last(lines)) /\ section_lines = <<>>
    /\ \E k \in 1..Len(song.sections) :
          song.sections[k].name # section_name /\ song.sections[k].value # <<>>

\* C7: the returned document is tagged 'pdf-failed' exactly if its mapping
\* is empty, which it is exactly if no header and no chord line stands in
\* front of the first licence line; otherwise the tag is 'pdf'.
C7_FailedIffNoSections ==
    pc = "done" =>
        /\ song.type \in {"pdf", "pdf-failed"}
        /\ song.type = "pdf-failed" <=> song.sections = <<>>
        /\ song.sections = <<>> <=>
               ~\E k \in 1..StructEnd(lines) : LineKind[lines[k]] \in {"header", "chord"}

\* C7 witness: every committed section is without pairs, and the tag is 'pdf'
C7_Witness ==
    /\ pc = "done"
    /\ song.sections # <<>>
    /\ \A k \in 1..Len(song.sections) : song.sections[k].value = <<>>
    /\ song.type = "pdf"

---------------------------------------------------------------------------
(* The pure functions, each called on inputs drawn from a bounded set      *)

\* the variables of parse_pdf, which a call of a pure function leaves alone
ParseIdle ==
    /\ lines = <<>>
    /\ song = NewSong
    /\ section_name = None
    /\ section_lines = <<>>
    /\ chord_line = None
    /\ superscript_line = None

\* all lists of 1 to n elements of S
ListsUpTo(S, n) == UNION {[1..m -> S] : m \in 1..n}

\* all strings of 1 to n characters of the alphabet S
StringsUpTo(S, n) == ListsUpTo(S, n)

\* --- RE.CHORD.match on a token ---

\* the longest token
MaxTokenLen == 3

TokenAlphabet == {"N", "C", ".", "A", "H", "m", "7", "/", "x"}

InitChord ==
    /\ ParseIdle
    /\ pc = "call"
    /\ args \in StringsUpTo(TokenAlphabet, MaxTokenLen)
    /\ result = None
    /\ frame = None

\* line 123: RE.CHORD.match(t)
CallChordMatch ==
    /\ pc = "call"
    /\ result' = CHORD_match(args)
    /\ pc' = "done"
    /\ UNCHANGED <<parse_vars, args, frame>>

SpecChord == InitChord /\ [][CallChordMatch]_vars

\* --- chord_indicies on a line ---

\* the longest line
MaxIndexLen == 5

IndexAlphabet == {"A", " ", "|", "(", ")"}

InitIndex ==
    /\ ParseIdle
    /\ pc = "call"
    /\ args \in StringsUpTo(IndexAlphabet, MaxIndexLen)
    /\ result = None
    /\ frame = None

\* lines 99-110: list(chord_indicies(chord_line))
CallChordIndicies ==
    /\ pc = "call"
    /\ result' = chord_indicies(args)
    /\ pc' = "done"
    /\ UNCHANGED <<parse_vars, args, frame>>

SpecIndex == InitIndex /\ [][CallChordIndicies]_vars

\* --- chordpro_line on a chord line and a lyric line ---

\* the most pieces the chord line and the lyric line are made of, together
MaxMergePieces == 4

ChordPieces == {<<"C">>, <<"A", "m">>, <<" ">>, <<" ", " ">>, <<"|">>, <<"(", "x", ")">>, <<"[", " ", " ", " ", " ", " ">>}

LyricPieces == {<<"a", "b", " ", "c", "d">>, <<"a">>, <<" ">>, <<" ", " ", " ">>, <<"]">>, <<"\t">>}

MergeInputs ==
    {[chords |-> Concat(p[1]), lyric |-> Concat(p[2])] :
        p \in {q \in ListsUpTo(ChordPieces, MaxMergePieces - 1)
                     \X ListsUpTo(LyricPieces, MaxMergePieces - 1) :
                  Len(q[1]) + Len(q[2]) <= MaxMergePieces}}

InitMerge ==
    /\ ParseIdle
    /\ pc = "call"
    /\ args \in MergeInputs
    /\ result = None
    /\ frame = None

\* lines 131-193: chordpro_line(chord_line, lyric_line)
CallChordproLine ==
    /\ pc = "call"
    /\ result' = chordpro_line(args.chords, args.lyric)
    /\ pc' = "done"
    /\ UNCHANGED <<parse_vars, args, frame>>

SpecMerge == InitMerge /\ [][CallChordproLine]_vars

---------------------------------------------------------------------------
(* Claims about the pure functions                                         *)

\* sub occurs somewhere in s
Contains(s, sub) == \E p \in 0..Len(s) : OccursAt(s, sub, p)

\* s holds a run of n spaces
HasSpaceRun(s, n) == Contains(s, [k \in 1..n |-> " "])

\* the tokens (with their columns) that C8 speaks of: not a directive, the
\* lyric line has a character at the token's column, and it is not one of C
C8_Tokens(chords, lyric, C) ==
    LET idx == chord_indicies(chords)
    IN  {idx[n] : n \in {m \in 1..Len(idx) :
                            /\ ~IsDirective(idx[m][2])
                            /\ idx[m][1] < Len(lyric)
                            /\ lyric[idx[m][1] + 1] \notin C}}

\* the output holds '[' + token + ']' followed by the lyric character of the
\* token's column
C8_Inlined(out, lyric, e) ==
    Contains(out, <<"[">> \o e[2] \o <<"]">> \o <<lyric[e[1] + 1]>>)

\* C8 (as claimed, "a space" read as any white space, which asks less):
\* every non-directive token whose column k has a lyric character that is
\* not a space appears in the output as '[token]' right in front of that
\* character.
C8_ChordBeforeItsColumn ==
    pc = "done" =>
        \A e \in C8_Tokens(args.chords, args.lyric, Whitespace) :
            C8_Inlined(result, args.lyric, e)

\* C8 (amended): the same for a token without a run of five spaces and a
\* lyric character that is no white space.
C8_ChordBeforeItsColumnAmended ==
    pc = "done" =>
        \A e \in C8_Tokens(args.chords, args.lyric, Whitespace) :
            ~HasSpaceRun(e[2], 5) => C8_Inlined(result, args.lyric, e)

\* C8 witness: two chords are inlined, the second at a column behind spaces
\* of the lyric line
C8_Witness ==
    /\ pc = "done"
    /\ \E e, f \in C8_Tokens(args.chords, args.lyric, Whitespace) :
          /\ e[1] = 0 /\ f[1] > 2
          /\ args.lyric[f[1]] = " "
          /\ C8_Inlined(result, args.lyric, e)
          /\ C8_Inlined(result, args.lyric, f)

\* the line has no nested and no unmatched bracket
WellBracketed(line) ==
    LET Open == {"(", "[", "{"}
        Close == {")", "]", "}"}
        OpenAt == {k \in 1..Len(line) : line[k] \in Open}
        CloseAt == {k \in 1..Len(line) : line[k] \in Close}
        \* the closer that follows the opener at k, with no bracket between
        Mate(k) == {j \in CloseAt : j > k /\ line[j] = brackets[line[k]]
                        /\ \A m \in (k + 1)..(j - 1) : line[m] \notin Open \cup Close}
    IN  /\ \A k \in OpenAt : Mate(k) # {}
        /\ \A j \in CloseAt : \E k \in OpenAt : j \in Mate(k)

\* C9: for a line without nested or unmatched brackets the (offset, token)
\* list of chord_indicies is exact: each token stands at its offset, offsets
\* grow without overlap, every character outside the tokens is white space,
\* and the tokens written back at their offsets with the white space between
\* them give the line.
C9_IndiciesExact ==
    (pc = "done" /\ WellBracketed(args)) =>
        /\ result # Raised
        /\ LET n == Len(result)
               Off(k) == result[k][1]
               End(k) == result[k][1] + Len(result[k][2])
               Covered == UNION {(Off(k) + 1)..End(k) : k \in 1..n}
               Gap(k) == Slice(args, IF k = 1 THEN 0 ELSE End(k - 1),
                               IF k > n THEN Len(args) ELSE Off(k))
           IN  /\ \A k \in 1..n : Slice(args, Off(k), End(k)) = result[k][2]
               /\ \A k \in 1..n : result[k][2] # <<>>
               /\ \A k \in 1..(n - 1) : End(k) <= Off(k + 1)
               /\ \A k \in 1..n : Off(k) >= 0
               /\ \A p \in (1..Len(args)) \ Covered : args[p] \in Separators \ {"|"}
               /\ Concat([k \in 1..n |-> Gap(k) \o result[k][2]]) \o Gap(n + 1) = args

\* C9 witness: a bracketed token with a space in it, and the same token twice
C9_Witness ==
    /\ pc = "done" /\ WellBracketed(args) /\ result # Raised
    /\ \E j, k \in 1..Len(result) :
          /\ j < k /\ result[j][2] = result[k][2]
    /\ \E k \in 1..Len(result) : Contains(result[k][2], <<" ">>)

\* the token as a whole is a chord symbol with a root note from A to G, or
\* as a whole the no-chord marker
C10_WholeToken(t) ==
    \/ ReEnd(t, ReNoChords(t, {0}))
    \/ t[1] \in {"A", "B", "C", "D", "E", "F", "G"} /\ ReEnd(t, ReChordSymbol(t, {0}))

\* C10 (as claimed): RE.CHORD.match accepts a token only as a whole: a chord
\* symbol with a root note from A to G, or exactly the no-chord marker.
C10_AllOrNothing ==
    pc = "done" => (result => C10_WholeToken(args))

---------------------------------------------------------------------------
(* is_chord_line on a list of tokens                                       *)

\* the longest list of tokens
MaxTokens == 3

TokenPool == {<<"|">>, <<"(", "T", "o">>, <<"x", ")">>, <<"C">>, <<"A", "m", "7">>, <<"t", "h", "e">>, <<"7", "u", "p">>}

InitRole ==
    /\ ParseIdle
    /\ pc = "call"
    /\ args \in {<<>>} \cup ListsUpTo(TokenPool, MaxTokens)
    /\ result = None
    /\ frame = None

\* lines 113-128: is_chord_line(tokens)
CallIsChordLine ==
    /\ pc = "call"
    /\ result' = is_chord_line(args)
    /\ pc' = "done"
    /\ UNCHANGED <<parse_vars, args, frame>>

SpecRole == InitRole /\ [][CallIsChordLine]_vars

\* the token is chord-like: a bar, a token that starts with ( or ends with ),
\* or a token that RE.CHORD.match accepts
C11_ChordLike(t) ==
    t = <<"|">> \/ Head(t) = "(" \/ Last(t) = ")" \/ CHORD_match(t)

\* how many elements of the list s satisfy the test coded by "like"
RECURSIVE C11_Count(_, _)
C11_Count(s, like) ==
    IF s = <<>> THEN 0
    ELSE (IF C11_ChordLike(Head(s)) = like THEN 1 ELSE 0) + C11_Count(Tail(s), like)

\* C11: is_chord_line is true exactly if the chord-like tokens outnumber the
\* others; a tie and the empty list give false, a non-empty list of bars true.
C11_StrictMajority ==
    pc = "done" =>
        /\ result <=> C11_Count(args, TRUE) > C11_Count(args, FALSE)
        /\ C11_Count(args, TRUE) = C11_Count(args, FALSE) => ~result
        /\ args = <<>> => ~result
        /\ (args # <<>> /\ \A k \in 1..Len(args) : args[k] = <<"|">>) => result

\* C11 witness: one chord-like token and one other, and the answer is false
C11_Witness ==
    /\ pc = "done"
    /\ Len(args) = 2
    /\ C11_Count(args, TRUE) = 1
    /\ result = FALSE

---------------------------------------------------------------------------
(* tokenise_chords on a line                                               *)

InitTokens ==
    /\ ParseIdle
    /\ pc = "call"
    /\ args \in StringsUpTo(IndexAlphabet, MaxIndexLen)
    /\ result = None
    /\ frame = None

\* lines 62-96: tokenise_chords(chord_line)
CallTokeniseChords ==
    /\ pc = "call"
    /\ result' = tokenise_chords(args)
    /\ pc' = "done"
    /\ UNCHANGED <<parse_vars, args, frame>>

SpecTokens == InitTokens /\ [][CallTokeniseChords]_vars

\* the tokens of a scan that keeps the closers of all open brackets: inside
\* a bracket an opening bracket adds its closer, the innermost closer removes
\* it, and separators end a token only when no bracket is open
RECURSIVE C12_NestedFrom(_, _, _, _, _)
C12_NestedFrom(line, k, chords, chord, closers) ==
    IF k > Len(line)
    THEN IF chord # <<>> THEN Append(chords, chord) ELSE chords
    ELSE LET c == line[k] IN
         IF closers # <<>> /\ c = Head(closers)
         THEN C12_NestedFrom(line, k + 1, chords, Append(chord, c), Tail(closers))
         ELSE IF c \in DOMAIN brackets
         THEN C12_NestedFrom(line, k + 1, chords, Append(chord, c),
                             <<brackets[c]>> \o closers)
         ELSE IF closers = <<>> /\ c \in Separators
         THEN C12_NestedFrom(line, k + 1,
                             (IF chord # <<>> THEN Append(chords, chord) ELSE chords)
                                 \o (IF c = "|" THEN << <<"|">> >> ELSE <<>>),
                             <<>>, closers)
         ELSE C12_NestedFrom(line, k + 1, chords, Append(chord, c), closers)

\* C12: tokenise_chords respects nested bracket pairs: a space or a bar ends
\* a token only when every bracket opened so far has been closed.
C12_NestedBrackets ==
    pc = "done" => result = C12_NestedFrom(args, 1, <<>>, <<>>, <<>>)

---------------------------------------------------------------------------
(* Claims about the pending lines of parse_pdf, checked under Spec         *)

\* the chord line that is pending when line j of the section opened by line
\* k is reached: only digit-only lines lie between the two; 0 if there is none
C13_ChordFor(ls, k, j) ==
    LET C == {m \in k..(j - 1) :
                 /\ LineKind[ls[m]] = "chord"
                 /\ \A x \in (m + 1)..(j - 1) : LineKind[ls[x]] = "digits"}
    IN  IF C = {} THEN 0 ELSE Max(C)

\* the sheet has no digit-only line, so that no chord line is altered
C13_NoDigits(ls) == \A x \in 1..Len(ls) : LineKind[ls[x]] # "digits"

\* the pairs are those of the section opened by line k: one per lyric line,
\* with the chord line pending at that lyric line or none, and, once the
\* section is closed, one more for the chord line pending then
C13_Agree(pairs, ls, k, closed) ==
    LET idx == Ascending({j \in (k + 1)..SegEnd(ls, k) : LineKind[ls[j]] = "other"})
        pend == C13_ChordFor(ls, k, SegEnd(ls, k) + 1)
    IN  /\ Len(pairs) = Len(idx) + (IF closed /\ pend # 0 THEN 1 ELSE 0)
        /\ \A n \in 1..Len(idx) :
              LET m == C13_ChordFor(ls, k, idx[n])
              IN  /\ pairs[n][1] # None <=> m # 0
                  /\ (m # 0 /\ C13_NoDigits(ls)) => pairs[n][1] = rstrip(ls[m])
        /\ (closed /\ pend # 0) =>
              /\ Last(pairs)[1] # None
              /\ C13_NoDigits(ls) => Last(pairs)[1] = rstrip(ls[pend])

\* the pairs and the pending chord line hold the chord lines that a lyric
\* line or the close of the section followed, and no other
C13_NoReplacedChordLine ==
    /\ (pc = "loop" /\ Opens(lines) = {}) => (section_lines = <<>> /\ chord_line = None)
    /\ (pc = "loop" /\ Opens(lines) # {}) =>
          LET k == Max(Opens(lines))
              pend == C13_ChordFor(lines, k, SegEnd(lines, k) + 1)
          IN  /\ C13_Agree(section_lines, lines, k, FALSE)
              /\ chord_line # None <=> pend # 0
              /\ (pend # 0 /\ C13_NoDigits(lines)) => chord_line = rstrip(lines[pend])
    /\ pc = "render" =>
          \A n \in 1..Len(song.sections) :
              LET name == song.sections[n].name
                  k == Max({o \in Opens(lines) : OpenName(lines, o) = name})
              IN  C13_Agree(song.sections[n].value, lines, k, TRUE)

\* C13: at most one chord line is pending: a chord line that arrives while
\* another one is pending replaces it and adds no pair, and the replaced
\* chord line is in no accumulated pair and in no committed section.
C13_OnePendingChordLine ==
    /\ []C13_NoReplacedChordLine
    /\ [][(LoopStep /\ Branch(song, section_name, Last(lines')) = "chord"
              /\ chord_line # None /\ pc' = "loop") =>
                 /\ chord_line' # None
                 /\ section_lines' = section_lines
                 /\ song' = song
         ]_vars

\* C13 witness: two chord lines with nothing in between, then a lyric line;
\* the section is committed with the second chord line in its only pair
C13_Witness ==
    /\ pc = "render"
    /\ Len(lines) = 4
    /\ LineKind[lines[1]] = "header" /\ LineKind[lines[2]] = "chord"
    /\ LineKind[lines[3]] = "chord" /\ LineKind[lines[4]] = "other"
    /\ rstrip(lines[2]) # rstrip(lines[3])
    /\ song.sections[1].value = << <<rstrip(lines[3]), rstrip(lines[4])>> >>

\* a line with chord-line or lyric-line content: a chord line, or a line
\* that is no header, no licence line, not digits only and holds no key or
\* time marker
C14_Content(line) ==
    \/ LineKind[line] = "chord"
    \/ /\ LineKind[line] = "other"
       /\ KEY_search(line).start = -1
       /\ TIME_search(line).start = -1

\* the line is accumulated into the open section: as its pending chord line
\* or as the lyric line of a new pair
C14_Accumulated(line) ==
    \/ chord_line' = rstrip(line)
    \/ section_lines' = Append(section_lines, <<chord_line, rstrip(line)>>)

\* the open section is committed: the mapping holds its name with its pairs,
\* the pending chord line as a last pair of its own
C14_Committed ==
    \E n \in 1..Len(song'.sections) :
        song'.sections[n] =
            [name  |-> section_name,
             value |-> IF Truthy(chord_line)
                       THEN Append(section_lines, <<chord_line, None>>)
                       ELSE section_lines]

\* a section is committed exactly at a header and at the end of the input
C14_ClosedAtHeaderOrEnd ==
    /\ (LoopStep /\ song'.sections # song.sections) =>
           Branch(song, section_name, Last(lines')) = "header"
    /\ (Truthy(section_name)
            /\ \/ LoopStep /\ Branch(song, section_name, Last(lines')) = "header"
               \/ pc = "loop" /\ pc' = "render") => C14_Committed
    /\ (pc = "loop" /\ pc' = "render" /\ ~Truthy(section_name)) => song' = song

\* C14 (as claimed): while no section has been opened, the first line with
\* chord-line or lyric-line content opens a section named VERSE 1 and is
\* accumulated into it; a section is committed exactly when the next header
\* appears or the input ends.
C14_FirstContentOpensVerse1 ==
    [][/\ (LoopStep /\ ~InLegal(song) /\ ~Truthy(section_name)
              /\ C14_Content(Last(lines'))) =>
                 /\ section_name' = <<"V", "E", "R", "S", "E", " ", "1">>
                 /\ C14_Accumulated(Last(lines'))
       /\ C14_ClosedAtHeaderOrEnd
      ]_vars

\* C14 (amended): while no section has been opened, the first chord line
\* opens a section named VERSE 1 and becomes its pending chord line; a lyric
\* line opens no section and is accumulated nowhere; a section is committed
\* exactly when a line is handled as a header or the input ends.
C14_FirstChordLineOpensVerse1 ==
    [][/\ (LoopStep /\ ~Truthy(section_name)
              /\ Branch(song, section_name, Last(lines')) = "chord") =>
                 /\ section_name' = <<"V", "E", "R", "S", "E", " ", "1">>
                 /\ chord_line' = rstrip(Last(lines'))
                 /\ section_lines' = <<>>
       /\ (LoopStep /\ ~InLegal(song) /\ ~Truthy(section_name)
              /\ LineKind[Last(lines')] \in {"other", "digits"}) =>
                 /\ ~Truthy(section_name')
                 /\ UNCHANGED <<section_lines, chord_line, superscript_line>>
                 /\ song'.sections = song.sections
       /\ C14_ClosedAtHeaderOrEnd
      ]_vars

\* C14 witness: a lyric line, a chord line and a lyric line, then the end of
\* the input: VERSE 1 is committed with the pair of the last two lines only
C14_Witness ==
    /\ pc = "render"
    /\ Len(lines) = 3
    /\ C14_Content(lines[1]) /\ LineKind[lines[1]] = "other"
    /\ LineKind[lines[2]] = "chord" /\ LineKind[lines[3]] = "other"
    /\ song.sections = << [name  |-> <<"V", "E", "R", "S", "E", " ", "1">>,
                           value |-> << <<rstrip(lines[2]), rstrip(lines[3])>> >>] >>

---------------------------------------------------------------------------
(* fix_superscript_line on a pair of lines                                 *)

\* the longest superscript line and the longest chord line
MaxSuperLen == 3
MaxChordsLen == 4

InitSuper ==
    /\ ParseIdle
    /\ pc = "call"
    /\ args \in [superscript : StringsUpTo({" ", "6"}, MaxSuperLen),
                 chords : StringsUpTo({" ", "A", "/"}, MaxChordsLen)]
    /\ result = None
    /\ frame = None

\* lines 196-224: fix_superscript_line(superscript, chords)
CallFixSuperscriptLine ==
    /\ pc = "call"
    /\ result' = fix_superscript_line(args.superscript, args.chords)
    /\ pc' = "done"
    /\ UNCHANGED <<parse_vars, args, frame>>

SpecSuper == InitSuper /\ [][CallFixSuperscriptLine]_vars

\* what column k of the two lines contributes, an absent character nothing
C16_Column(superscript, chords, k) ==
    LET s == IF k <= Len(superscript) THEN <<superscript[k]>> ELSE <<>>
        c == IF k <= Len(chords) THEN <<chords[k]>> ELSE <<>>
    IN  IF s = <<>> \/ s = <<" ">> THEN c
        ELSE IF c = <<" ">> THEN s
        ELSE s \o c

\* the concatenation of the columns up to the longer length
C16_Merged(superscript, chords) ==
    Concat([k \in 1..Max({Len(superscript), Len(chords)}) |->
               C16_Column(superscript, chords, k)])

\* C16: fix_superscript_line returns, for every pair of lines, the
\* concatenation over the columns up to the longer length of the chord
\* character, the superscript character or both, an absent character
\* contributing nothing.
C16_ColumnRule ==
    pc = "done" => result = C16_Merged(args.superscript, args.chords)

---------------------------------------------------------------------------
(* The pending superscript line of parse_pdf, checked under Spec           *)

\* C15: a digit-only line seen while a section is open becomes the pending
\* superscript line and adds no pair; the next chord line is stored merged
\* with it and clears it; a chord line with no superscript line pending is
\* stored as it is, right-trimmed.
C15_SuperscriptMergedOnce ==
    [][LoopStep =>
          LET line == Last(lines')
              b == Branch(song, section_name, line)
          IN  /\ b = "superscript" =>
                    /\ superscript_line' = line
                    /\ UNCHANGED <<section_lines, chord_line, song>>
              /\ (b = "chord" /\ superscript_line # None) =>
                    /\ chord_line' = C16_Merged(superscript_line, rstrip(line))
                    /\ superscript_line' = None
              /\ (b = "chord" /\ superscript_line = None) =>
                    /\ chord_line' = rstrip(line)
                    /\ superscript_line' = None
              /\ b \notin {"superscript", "chord"} => UNCHANGED superscript_line
      ]_vars

---------------------------------------------------------------------------
(* Claims about chord_indicies on any line, checked under SpecIndex        *)

\* the scan of the tokenizer from character k on, which notes for each token
\* the offset of the character that started it: the list of <<offset, token>>
RECURSIVE C17_ReadFrom(_, _, _, _, _, _)
C17_ReadFrom(line, k, read, start, chord, closer) ==
    LET flushed == IF chord # <<>> THEN Append(read, <<start, chord>>) ELSE read
    IN  IF k > Len(line) THEN flushed
        ELSE LET c == line[k]
                 begun == IF chord = <<>> THEN k - 1 ELSE start
             IN  IF closer # NoChar
                 THEN C17_ReadFrom(line, k + 1, read, begun, Append(chord, c),
                                   IF c = closer THEN NoChar ELSE closer)
                 ELSE IF c \in DOMAIN brackets
                 THEN C17_ReadFrom(line, k + 1, read, begun, Append(chord, c), brackets[c])
                 ELSE IF c \in Separators
                 THEN C17_ReadFrom(line, k + 1,
                                   flushed \o (IF c = "|" THEN << <<k - 1, <<"|">> >> >> ELSE <<>>),
                                   k, <<>>, closer)
                 ELSE C17_ReadFrom(line, k + 1, read, begun, Append(chord, c), closer)

\* C17: for every line, with nested or unterminated brackets too,
\* chord_indicies does not raise, and it yields each token of the tokenizer
\* at the offset where the tokenizer read it.
C17_TokensFoundWhereRead ==
    pc = "done" =>
        /\ result # Raised
        /\ result = C17_ReadFrom(args, 1, <<>>, 0, <<>>, NoChar)

\* C17 witness: a line whose brackets do not pair up, with one token twice
C17_Witness ==
    /\ pc = "done" /\ ~WellBracketed(args) /\ result # Raised
    /\ \E j, k \in 1..Len(result) : j < k /\ result[j][2] = result[k][2]

---------------------------------------------------------------------------
(* chordpro_line, one iteration of its while loop at a time                *)

\* the most pieces of a chord line and the longest lyric line
MaxLoopPieces == 3
MaxLyricLen == 3

LoopPieces == {<<"A", "m">>, <<" ">>, <<"|">>, <<"(", "x", ")">>}

LoopChordLines == {<<>>} \cup {Concat(p) : p \in ListsUpTo(LoopPieces, MaxLoopPieces)}

LoopInputs == [chords : LoopChordLines, lyric : {<<>>} \cup StringsUpTo({"a", " "}, MaxLyricLen)]

\* chord_indicies, evaluated once for each chord line of LoopChordLines
Indicies == [chords \in LoopChordLines |-> chord_indicies(chords)]

InitLoop ==
    /\ ParseIdle
    /\ pc = "idle"
    /\ args = <<>>
    /\ result = None
    /\ frame = None

\* line 331: chordpro_line(c, l) is called on a pair of lines
Call(chords, lyric_line) ==
    /\ pc = "idle"
    /\ args' = [chords |-> chords, lyric |-> lyric_line]
    /\ pc' = "call"
    /\ UNCHANGED <<parse_vars, result, frame>>

\* lines 139-143: one of the lines is empty, the other is returned
ReturnOther ==
    /\ pc = "call"
    /\ ~Truthy(args.chords) \/ ~Truthy(args.lyric)
    /\ result' = IF ~Truthy(args.chords) THEN args.lyric ELSE args.chords
    /\ pc' = "done"
    /\ UNCHANGED <<parse_vars, args, frame>>

\* lines 145-159: the iterators and the first next() of each
EnterLoop ==
    /\ pc = "call"
    /\ Truthy(args.chords) /\ Truthy(args.lyric)
    /\ IF Indicies[args.chords] = Raised
       THEN pc' = "raised" /\ UNCHANGED frame
       ELSE pc' = "merge" /\ frame' = MergeInit(Indicies[args.chords], args.lyric)
    /\ UNCHANGED <<parse_vars, args, result>>

\* the furthest the lyric cursor is followed
CursorCap(chords, lyric_line) == Len(chords) + Len(lyric_line) + 1

\* lines 160-188: one iteration of the while loop
Iterate ==
    /\ pc = "merge"
    /\ MergeRunning(frame)
    /\ frame.i < CursorCap(args.chords, args.lyric)
    /\ frame' = MergeStep(frame, args.lyric)
    /\ UNCHANGED <<parse_vars, args, result, pc>>

\* line 160: the loop condition is false, both streams are exhausted
LeaveLoop ==
    /\ pc = "merge"
    /\ ~MergeRunning(frame)
    /\ pc' = "join"
    /\ UNCHANGED <<parse_vars, args, result, frame>>

\* lines 190-193: the output is joined, cleaned and returned
ReturnMerged ==
    /\ pc = "join"
    /\ result' = strip(CollapseSpaces(frame.output))
    /\ pc' = "done"
    /\ UNCHANGED <<parse_vars, args, frame>>

\* the steps of a call up to the end of its loop
RunLoop == ReturnOther \/ EnterLoop \/ Iterate \/ LeaveLoop

NextLoop ==
    \/ \E a \in LoopInputs : Call(a.chords, a.lyric)
    \/ RunLoop
    \/ ReturnMerged

SpecLoop == InitLoop /\ [][NextLoop]_vars

\* a call that has started keeps running: the steps of the loop are taken
\* as long as one of them can be
SpecLoopFair == SpecLoop /\ WF_vars(RunLoop)

---------------------------------------------------------------------------
(* Claims about the while loop of chordpro_line                            *)

\* the token as chordpro_line writes it
C18_Markup(chord) ==
    IF Head(chord) = "(" /\ Last(chord) = ")"
    THEN <<"{", "c", "o", "m", "m", "e", "n", "t", ":">> \o chord \o <<"}">>
    ELSE <<"[">> \o chord \o <<"]">>

\* the tokens not emitted yet: the pending one and those still to be yielded
C18_ToEmit(f) ==
    (IF Truthy(f.chord) THEN << <<f.index, f.chord>> >> ELSE <<>>) \o f.chords

\* s is t without its first n elements, for some n
C18_IsSuffix(s, t) ==
    Len(s) <= Len(t) /\ s = SubSeq(t, Len(t) - Len(s) + 1, Len(t))

\* in the loop, the lyric cursor has not passed the column of the pending
\* token and has not left the two lines behind; the tokens not emitted yet
\* are a tail of the tokens of the chord line; none is left when the loop ends
C18_CursorBehindChord ==
    /\ pc = "merge" =>
          /\ Truthy(frame.chord) => frame.i <= frame.index
          /\ frame.i < CursorCap(args.chords, args.lyric)
          /\ C18_IsSuffix(C18_ToEmit(frame), chord_indicies(args.chords))
    /\ pc = "join" => C18_ToEmit(frame) = <<>>

\* an iteration at the column of the pending token appends the token's
\* markup, after at most one space, and takes the next token; any other
\* iteration appends one character and leaves the tokens alone
C18_EmitsOneTokenInOrder ==
    (pc = "merge" /\ pc' = "merge") =>
        LET todo == C18_ToEmit(frame)
        IN  IF Truthy(frame.chord) /\ frame.i = frame.index
            THEN /\ C18_ToEmit(frame') = Tail(todo)
                 /\ frame'.output \in {frame.output \o C18_Markup(frame.chord),
                                       frame.output \o <<" ">> \o C18_Markup(frame.chord)}
                 /\ frame'.i - frame.i \in 0..Len(frame.chord)
                 /\ \A p \in frame.i..(frame'.i - 1) : LyricChar(args.lyric, p) = " "
            ELSE /\ C18_ToEmit(frame') = todo
                 /\ Len(frame'.output) = Len(frame.output) + 1
                 /\ frame'.i = frame.i + 1

\* C18: while a token is pending the lyric cursor never passes its column,
\* also after skipping up to len(token) spaces behind the previous token;
\* every token of the chord line is emitted once, in order, as [token] or
\* {comment:token}, and none is dropped.
C18_NoChordDropped ==
    []C18_CursorBehindChord /\ [][C18_EmitsOneTokenInOrder]_vars

\* C18 witness: the cursor has skipped the spaces under a token and stands
\* at the column of the next token, which is pending
C18_Witness ==
    /\ pc = "merge"
    /\ Truthy(frame.chord)
    /\ frame.i = frame.index
    /\ frame.i > 0
    /\ frame.last_char = " "
    /\ Last(frame.output) \in {"]", "}"}

\* C19: chordpro_line terminates for every chord line and lyric line: the
\* loop of a call reaches the state where both streams are exhausted (or the
\* call has returned one of the lines without entering the loop).
C19_Terminates == (pc = "call") ~> (pc \in {"join", "done"})

\* C19 witness: the loop has ended and a token of the chord line stood
\* at a column beyond the end of the lyric line
C19_Witness ==
    /\ pc = "join"
    /\ ~MergeRunning(frame)
    /\ \E k \in 1..Len(chord_indicies(args.chords)) :
          chord_indicies(args.chords)[k][1] > Len(args.lyric)
    /\ frame.i > Len(args.lyric)

=============================================================================
